---- MODULE Spec2Model ----
(***************************************************************************)
(* Model of optalg/opt_solver/_ipopt/cipopt.pyx: the IpoptContext class    *)
(* (construction, teardown, add_option, create_problem, solve) and the     *)
(* five C callbacks it registers with the native IPOPT C interface.        *)
(*                                                                         *)
(* The native library and the caller's Python callbacks are environment:   *)
(* what they return is drawn from small sets.  What the adapter does with  *)
(* those returns is translated from the source.                            *)
(***************************************************************************)
EXTENDS Integers, Sequences, FiniteSets

\* ------------------------------------------------------------------ bounds
\* largest variable count n a caller constructs with
MaxN == 1
\* largest constraint count m
MaxM == 1
\* largest array size a caller's Jacobian / Hessian callback returns
MaxNnz == 1
\* CreateIpoptProblem calls explored
MaxHandles == 2
\* solve calls explored
MaxSolves == 2

\* The C null pointer (x == NULL, iRow != NULL, ...); also the value of the
\* cdef field `problem` before create_problem has assigned it (Cython
\* zero-fills the C fields of a cdef class in tp_new).
NULL == 0

VARIABLES
    phase,      \* "none" | "live" | "solving" | "failed" | "dead"
    n, m,       \* cdef int n, m
    nnzj, nnzh, \* cdef int nnzj, nnzh
    problem,    \* cdef cipopt.IpoptProblem problem (a handle, or NULL)
    created,    \* native layer: the CreateIpoptProblem calls, in order
    freed,      \* native layer: the FreeIpoptProblem arguments, in order
    initLog,    \* what __init__ called, in order
    bufs,       \* the numpy buffers in existence; a buffer's id is its index
    frame,      \* solve's locals nx, nlam, npi, nmu while IpoptSolve runs
    results,    \* the dictionaries solve has returned, in order
    last        \* the most recent call into the adapter and what it did

vars == <<phase, n, m, nnzj, nnzh, problem, created, freed, initLog,
          bufs, frame, results, last>>

\* What a structure query of the caller's eval_jac_g / eval_h can do: raise,
\* or return a (rows, cols) pair of arrays of any two sizes.
StructReturns ==
    {[raises |-> TRUE, rows |-> 0, cols |-> 0]} \cup
    {[raises |-> FALSE, rows |-> r, cols |-> c] : r \in 0..MaxNnz, c \in 0..MaxNnz}

\* ------------------------------------------------------------ native layer
\* CreateIpoptProblem(n, ..., m, ..., nele_jac, nele_hess, ...): the native
\* library hands back a handle it has not handed back before.
NewHandle == Len(created) + 1

CreateArgsSwapped(nj, nh) == [nele_jac |-> nh, nele_hess |-> nj]

\* The nonzero counts create_problem passes: self.nnzj, self.nnzh.
CreateArgs(nj, nh) == [nele_jac |-> nj, nele_hess |-> nh]

CreateIpoptProblem(nn, mm, nj, nh) ==
    Append(created, [handle |-> NewHandle, n |-> nn, m |-> mm,
                     args |-> CreateArgs(nj, nh)])

\* ------------------------------------------------------------ construction
AssertSizesOff(rows, cols) == TRUE

\* assert(Jrow.size == Jcol.size) / assert(Hrow.size == Hcol.size)
AssertSizes(rows, cols) == rows = cols

QueryEntry(fn, ret) ==
    [fn |-> fn, flag |-> TRUE, raises |-> ret.raises,
     rows |-> ret.rows, cols |-> ret.cols]

CreateEntry(nj, nh) == [fn |-> "CreateIpoptProblem", args |-> CreateArgs(nj, nh)]

\* How far __init__ gets: the statement it stops at and the exception.
InitStop(jac, hess, boundsOk) ==
    IF jac.raises THEN [at |-> "eval_jac_g", exc |-> "CallbackError"]
    ELSE IF ~AssertSizes(jac.rows, jac.cols)
         THEN [at |-> "assert_jac", exc |-> "AssertionError"]
    ELSE IF hess.raises THEN [at |-> "eval_h", exc |-> "CallbackError"]
    ELSE IF ~AssertSizes(hess.rows, hess.cols)
         THEN [at |-> "assert_hess", exc |-> "AssertionError"]
    ELSE IF ~boundsOk THEN [at |-> "create_problem", exc |-> "ValueError"]
    ELSE [at |-> "end", exc |-> "none"]

\* IpoptContext.__init__(n, m, l, u, gl, gu, eval_f, ..., eval_h)
Construct(nn, mm, jac, hess, boundsOk) ==
    LET stop == InitStop(jac, hess, boundsOk)
        pastJac == stop.at \notin {"eval_jac_g", "assert_jac"}
        pastHess == pastJac /\ stop.at \notin {"eval_h", "assert_hess"}
        done == stop.at = "end"
        nj == IF pastJac THEN jac.rows ELSE nnzj
        nh == IF pastHess THEN hess.rows ELSE nnzh
    IN  /\ phase = "none"
        /\ n' = nn
        /\ m' = mm
        /\ nnzj' = nj
        /\ nnzh' = nh
        /\ initLog' = <<QueryEntry("eval_jac_g", jac)>>
                      \o (IF stop.at = "eval_jac_g" \/ stop.at = "assert_jac"
                          THEN <<>> ELSE <<QueryEntry("eval_h", hess)>>)
                      \o (IF done THEN <<CreateEntry(nj, nh)>> ELSE <<>>)
        /\ created' = IF done THEN CreateIpoptProblem(nn, mm, nj, nh) ELSE created
        /\ problem' = IF done THEN NewHandle ELSE problem
        /\ phase' = IF done THEN "live" ELSE "failed"
        /\ last' = [op |-> "__init__", exc |-> stop.exc]
        /\ UNCHANGED <<freed, bufs, frame, results>>

\* cipopt.FreeIpoptProblem(self.problem)
FreeIpoptProblem == Append(freed, problem)

\* IpoptContext.__dealloc__: runs when the object is reclaimed, also when
\* __init__ raised (tp_new had already allocated the object).
Dealloc ==
    /\ phase \in {"live", "failed"}
    /\ freed' = FreeIpoptProblem
    /\ phase' = "dead"
    /\ last' = [op |-> "__dealloc__", exc |-> "none"]
    /\ UNCHANGED <<n, m, nnzj, nnzh, problem, created, initLog, bufs, frame, results>>

\* IpoptContext.create_problem(), called by the caller on a live context (it
\* is a def method, so it is public): a new native problem is created and
\* self.problem is overwritten.
CreateProblem ==
    /\ phase = "live"
    /\ Len(created) < MaxHandles
    /\ created' = CreateIpoptProblem(n, m, nnzj, nnzh)
    /\ problem' = NewHandle
    /\ last' = [op |-> "create_problem", exc |-> "none"]
    /\ UNCHANGED <<phase, n, m, nnzj, nnzh, freed, initLog, bufs, frame, results>>

\* ---------------------------------------------------------------- options
\* The Python types of the values a caller passes as `val`.
ValTypes == {"int", "bool", "str", "float", "bytes", "NoneType"}

\* isinstance(val, cls): true of cls itself and of its subclasses; among the
\* types above the only subclass relation is bool <: int.
IsInstance(t, cls) == t = cls \/ (t = "bool" /\ cls = "int")

SetterForStrAsNum(t) ==
    IF IsInstance(t, "int") THEN "AddIpoptIntOption"
    ELSE IF IsInstance(t, "float") \/ IsInstance(t, "str") THEN "AddIpoptNumOption"
    ELSE "none"

\* The isinstance chain of add_option: the native setter called, "none" for
\* the else branch.
SetterFor(t) ==
    IF IsInstance(t, "int") THEN "AddIpoptIntOption"
    ELSE IF IsInstance(t, "str") THEN "AddIpoptStrOption"
    ELSE IF IsInstance(t, "float") THEN "AddIpoptNumOption"
    ELSE "none"

AddOptionExcIgnoresValid(setter, valid) ==
    IF setter = "none" THEN "ValueError" ELSE "none"

\* What add_option raises: ValueError from the else branch, otherwise
\* IpoptContextError when `not valid`.
AddOptionExc(setter, valid) ==
    IF setter = "none" THEN "ValueError"
    ELSE IF ~valid THEN "IpoptContextError"
    ELSE "none"

\* IpoptContext.add_option(key, val); `valid` is what the native setter
\* returns for this key and value.
AddOption(t, valid) ==
    LET setter == SetterFor(t)
    IN  /\ phase = "live"
        /\ last' = [op |-> "add_option", valType |-> t, valid |-> valid,
                    native |-> IF setter = "none" THEN <<>>
                               ELSE <<[fn |-> setter, handle |-> problem]>>,
                    exc |-> AddOptionExc(setter, valid)]
        /\ UNCHANGED <<phase, n, m, nnzj, nnzh, problem, created, freed,
                       initLog, bufs, frame, results>>

\* ------------------------------------------------------------------ solve
\* The status codes IpoptSolve returns (an enum ApplicationReturnStatus);
\* two of them stand for all: success and a failure.
StatusCodes == {"Solve_Succeeded", "Invalid_Number_Detected"}

Buf(by, call, data) == [by |-> by, call |-> call, data |-> data]

\* np.zeros(k): a new array.
NpZeros(call) == Buf("solve", call, "zeros")

\* cdef np.ndarray[double,mode='c'] nx = x: a typed reference to the
\* caller's array object itself; nothing is allocated or copied.
Nx(x) == x

\* solve(x) up to the point where IpoptSolve is entered.  The caller passes
\* either an array it has just made (fresh) or the one it passed to its
\* previous solve call.
SolveBegin(fresh) ==
    LET call == Len(results) + 1
        withX == IF fresh THEN Append(bufs, Buf("caller", call, "x0")) ELSE bufs
        x == IF fresh THEN Len(bufs) + 1 ELSE results[Len(results)].arg
        base == Len(withX)
    IN  /\ phase = "live"
        /\ Len(results) < MaxSolves
        /\ fresh \/ results # <<>>
        /\ bufs' = withX \o <<NpZeros(call), NpZeros(call), NpZeros(call)>>
        /\ frame' = [call |-> call, x |-> x, nx |-> Nx(x),
                     nlam |-> base + 1, npi |-> base + 2, nmu |-> base + 3,
                     handle |-> problem]
        /\ phase' = "solving"
        /\ last' = [op |-> "IpoptSolve", exc |-> "none"]
        /\ UNCHANGED <<n, m, nnzj, nnzh, problem, created, freed, initLog, results>>

\* IpoptSolve writes the final point through the x pointer and the
\* multipliers through the mult_g, mult_x_L, mult_x_U pointers.
NativeWrites(ids) ==
    [i \in 1..Len(bufs) |->
        IF i \in ids THEN [bufs[i] EXCEPT !.data = "native"] ELSE bufs[i]]

\* The arrays of the dictionary solve returns: {'x': nx, 'lam': nlam,
\* 'pi': npi, 'mu': nmu}; `arg` is the array the caller passed as x.
SolveReturn ==
    [arg |-> frame.x, x |-> frame.nx, lam |-> frame.nlam,
     pi |-> frame.npi, mu |-> frame.nmu]

\* IpoptSolve returns `status`; solve builds and returns its dictionary (its
\* 'status' entry is kept in `last`).
SolveEnd(status) ==
    /\ phase = "solving"
    /\ bufs' = NativeWrites({frame.nx, frame.nlam, frame.npi, frame.nmu})
    /\ results' = Append(results, SolveReturn)
    /\ frame' = <<>>
    /\ phase' = "live"
    /\ last' = [op |-> "solve", exc |-> "none", status |-> status]
    /\ UNCHANGED <<n, m, nnzj, nnzh, problem, created, freed, initLog>>

\* ------------------------------------------------------------ trampolines
\* The C callbacks run while IpoptSolve runs.  The native driver passes the
\* problem's dimensions and the nonzero counts it was created with.
Problem == created[frame.handle]

\* A C pointer argument: NULL or the address of a buffer of the driver's.
Ptrs == {NULL, 1}

\* The array sizes a caller's gradient / constraint callback can return:
\* shorter than, equal to and longer than the dimension.
DenseSizes == 0..(MaxN + 1)

\* What a caller's eval_jac_g / eval_h can return: to a structure query a
\* pair of index arrays of any two sizes, to a value query one array.
SparseReturns ==
    {[mode |-> "structure", sizes |-> <<r, c>>] : r \in 0..MaxNnz, c \in 0..MaxNnz}
    \cup {[mode |-> "value", sizes |-> <<d>>] : d \in 0..MaxNnz}

\* memcpy(dst, src.data, sizeof(elem) * cnt) with src an array of srcLen
\* elements: cnt elements are read from src whatever its length.
Memcpy(dst, cnt, srcLen) == [dst |-> dst, cnt |-> cnt, srcLen |-> srcLen]

\* What a trampoline leaves of the adapter's state alone: all of it.
ctx == <<phase, n, m, nnzj, nnzh, problem, created, freed, initLog,
         bufs, frame, results>>

\* One invocation: the pointer arguments, the calls made to the caller's
\* callbacks (mode "structure" is fn(None, ..., True), mode "value" is
\* fn(ArrayDouble(x, c.n), ..., False)) with the sizes of the arrays each
\* returned, the memcpy calls made, and the value returned to the driver.
Tramp(op, pt, cb, copies, ret) ==
    [op |-> op, exc |-> "none", args |-> pt, cb |-> cb,
     copies |-> copies, ret |-> ret]

NoArgs == [x |-> 1, iRow |-> NULL, jCol |-> NULL, nele |-> 0]

\* eval_f_cb: obj_value[0] = c.eval_f(ArrayDouble(x, c.n)); return True
EvalFCb ==
    /\ phase = "solving"
    /\ last' = Tramp("eval_f_cb", NoArgs, <<[fn |-> "eval_f", mode |-> "value"]>>,
                     <<Memcpy("obj_value", 1, 1)>>, TRUE)
    /\ UNCHANGED ctx

\* eval_grad_f_cb: the callback's array, of `size` elements, is copied with
\* memcpy(grad_f, grad_f_arr.data, sizeof(double) * c.n); return True
EvalGradFCb(size) ==
    /\ phase = "solving"
    /\ last' = Tramp("eval_grad_f_cb", [NoArgs EXCEPT !.nele = Problem.n],
                     <<[fn |-> "eval_grad_f", mode |-> "value", sizes |-> <<size>>]>>,
                     <<Memcpy("grad_f", n, size)>>, TRUE)
    /\ UNCHANGED ctx

\* eval_g_cb: memcpy(g, g_arr.data, sizeof(double) * c.m); return True
EvalGCb(size) ==
    /\ phase = "solving"
    /\ last' = Tramp("eval_g_cb", [NoArgs EXCEPT !.nele = Problem.m],
                     <<[fn |-> "eval_g", mode |-> "value", sizes |-> <<size>>]>>,
                     <<Memcpy("g", m, size)>>, TRUE)
    /\ UNCHANGED ctx

StructureQueryXOnly(x, iRow, jCol) == x = NULL

\* if x == NULL and iRow != NULL and jCol != NULL:
StructureQuery(x, iRow, jCol) == x = NULL /\ iRow # NULL /\ jCol # NULL

StructSizesBadRowsOnly(rows, cols, nele) == rows # nele

\* if Jrow_arr.size != nele_jac or Jcol_arr.size != nele_jac: return False
StructSizesBad(rows, cols, nele) == rows # nele \/ cols # nele

\* if Jdata_arr.size != nele_jac: return False
ValueSizeBad(size, nele) == size # nele

\* The body shared, statement for statement, by eval_jac_g_cb and eval_h_cb:
\* `fn` is the caller's callback, `nele` the count argument and `reply`
\* what fn returns to the query made of it.
SparseCb(op, fn, nele, x, iRow, jCol, reply) ==
    LET pt == [x |-> x, iRow |-> iRow, jCol |-> jCol, nele |-> nele]
        structure == <<[fn |-> fn, mode |-> "structure", sizes |-> reply.sizes]>>
        value == <<[fn |-> fn, mode |-> "value", sizes |-> reply.sizes]>>
    IN  IF StructureQuery(x, iRow, jCol)
        THEN IF StructSizesBad(reply.sizes[1], reply.sizes[2], nele)
             THEN Tramp(op, pt, structure, <<>>, FALSE)
             ELSE Tramp(op, pt, structure,
                        <<Memcpy("iRow", nele, reply.sizes[1]),
                          Memcpy("jCol", nele, reply.sizes[2])>>,
                        TRUE)
        ELSE IF ValueSizeBad(reply.sizes[1], nele)
             THEN Tramp(op, pt, value, <<>>, FALSE)
             ELSE Tramp(op, pt, value, <<Memcpy("values", nele, reply.sizes[1])>>, TRUE)

\* The query the trampoline makes of the caller's callback: fn(None, True)
\* or fn(ArrayDouble(x, c.n), False).
QueryMode(x, iRow, jCol) ==
    IF StructureQuery(x, iRow, jCol) THEN "structure" ELSE "value"

\* eval_jac_g_cb(n, x, new_x, m, nele_jac, iRow, jCol, values, user_data)
EvalJacGCb(x, iRow, jCol, reply) ==
    /\ phase = "solving"
    /\ reply.mode = QueryMode(x, iRow, jCol)
    /\ last' = SparseCb("eval_jac_g_cb", "eval_jac_g", Problem.args.nele_jac,
                        x, iRow, jCol, reply)
    /\ UNCHANGED ctx

\* eval_h_cb(n, x, new_x, obj_factor, m, lam, new_lam, nele_hess, iRow, jCol,
\*           values, user_data)
EvalHCb(x, iRow, jCol, reply) ==
    /\ phase = "solving"
    /\ reply.mode = QueryMode(x, iRow, jCol)
    /\ last' = SparseCb("eval_h_cb", "eval_h", Problem.args.nele_hess,
                        x, iRow, jCol, reply)
    /\ UNCHANGED ctx

Init ==
    /\ phase = "none"
    /\ n = 0
    /\ m = 0
    /\ nnzj = 0
    /\ nnzh = 0
    /\ problem = NULL
    /\ created = <<>>
    /\ freed = <<>>
    /\ initLog = <<>>
    /\ bufs = <<>>
    /\ frame = <<>>
    /\ results = <<>>
    /\ last = [op |-> "none", exc |-> "none"]

Next ==
    \/ \E nn \in 1..MaxN, mm \in 0..MaxM, jac \in StructReturns,
          hess \in StructReturns, boundsOk \in BOOLEAN :
          Construct(nn, mm, jac, hess, boundsOk)
    \/ Dealloc
    \/ CreateProblem
    \/ \E t \in ValTypes, valid \in BOOLEAN : AddOption(t, valid)
    \/ \E fresh \in BOOLEAN : SolveBegin(fresh)
    \/ \E status \in StatusCodes : SolveEnd(status)
    \/ EvalFCb
    \/ \E size \in DenseSizes : EvalGradFCb(size)
    \/ \E size \in DenseSizes : EvalGCb(size)
    \/ \E x \in Ptrs, iRow \in Ptrs, jCol \in Ptrs, reply \in SparseReturns :
          EvalJacGCb(x, iRow, jCol, reply)
    \/ \E x \in Ptrs, iRow \in Ptrs, jCol \in Ptrs, reply \in SparseReturns :
          EvalHCb(x, iRow, jCol, reply)

Spec == Init /\ [][Next]_vars
\* ------------------------------------------------------------------ claims
\* __init__ ran to its end: its last call was CreateIpoptProblem.
Constructed ==
    initLog # <<>> /\ initLog[Len(initLog)].fn = "CreateIpoptProblem"

Handles == {created[i].handle : i \in DOMAIN created}

TimesFreed(h) == Cardinality({j \in DOMAIN freed : freed[j] = h})

DenseTramp == last.op \in {"eval_grad_f_cb", "eval_g_cb"}

SparseTramp == last.op \in {"eval_jac_g_cb", "eval_h_cb"}

\* C1: in the gradient and constraint trampolines, a returned buffer whose
\* length is not the one the native solver expects (n, m) makes the
\* trampoline return false and copy nothing; no memcpy reads more elements
\* than its source holds.
C1_DenseLengthChecked ==
    DenseTramp =>
        /\ last.cb[1].sizes[1] # last.args.nele =>
               last.ret = FALSE /\ last.copies = <<>>
        /\ \A i \in DOMAIN last.copies : last.copies[i].cnt <= last.copies[i].srcLen

\* C2: for a constructed context, under any calls of add_option, solve and
\* create_problem, exactly one native handle is ever created, none is
\* released before teardown, and after teardown every created handle has
\* been released exactly once.
C2_CreatedOnceFreedOnce ==
    Constructed =>
        /\ Len(created) = 1
        /\ phase # "dead" => freed = <<>>
        /\ phase = "dead" => \A h \in Handles : TimesFreed(h) = 1

\* C3: a construction whose Jacobian or Hessian structure query returns row
\* and column arrays of different sizes stops there with an AssertionError;
\* CreateIpoptProblem is never called and the handle field stays NULL.
C3_MismatchFailsBeforeCreate ==
    \A i \in DOMAIN initLog :
        (/\ initLog[i].fn \in {"eval_jac_g", "eval_h"}
         /\ ~initLog[i].raises
         /\ initLog[i].rows # initLog[i].cols) =>
            /\ i = Len(initLog)
            /\ created = <<>>
            /\ problem = NULL
            /\ phase \in {"failed", "dead"}
            /\ phase = "failed" => last = [op |-> "__init__", exc |-> "AssertionError"]

C3_Witness ==
    /\ phase = "failed"
    /\ Len(initLog) = 1
    /\ ~initLog[1].raises
    /\ initLog[1].rows # initLog[1].cols
    /\ last.exc = "AssertionError"

\* C4: add_option calls exactly one native setter for a supported value, the
\* one of the value's type (integers, bool among them, -> AddIpoptIntOption,
\* str -> AddIpoptStrOption, float -> AddIpoptNumOption), on the context's
\* handle; for any other type it raises ValueError and calls no setter.
C4_OptionDispatch ==
    last.op = "add_option" =>
        /\ last.valType \in {"int", "bool"} =>
               last.native = <<[fn |-> "AddIpoptIntOption", handle |-> problem]>>
        /\ last.valType = "str" =>
               last.native = <<[fn |-> "AddIpoptStrOption", handle |-> problem]>>
        /\ last.valType = "float" =>
               last.native = <<[fn |-> "AddIpoptNumOption", handle |-> problem]>>
        /\ last.valType \notin {"int", "bool", "str", "float"} =>
               last.native = <<>> /\ last.exc = "ValueError"

C4_Witness ==
    /\ last.op = "add_option"
    /\ last.valType = "str"
    /\ Len(last.native) = 1
    /\ last.native[1].fn = "AddIpoptStrOption"

\* C5: add_option with a supported value raises IpoptContextError exactly
\* when the setter it called returned false, and returns normally when the
\* setter accepted; with an unsupported value it raises ValueError.
C5_OptionErrors ==
    last.op = "add_option" =>
        /\ last.native # <<>> =>
               /\ last.exc = "IpoptContextError" <=> ~last.valid
               /\ last.valid => last.exc = "none"
        /\ last.native = <<>> => last.exc = "ValueError"

C5_Witness ==
    /\ last.op = "add_option"
    /\ last.native # <<>>
    /\ ~last.valid
    /\ last.exc = "IpoptContextError"

\* C6: each invocation of the Jacobian or Hessian trampoline makes exactly
\* one query of the caller's callback, a structure query or a value query;
\* a structure query only with x NULL and iRow, jCol both non-NULL; a value
\* query whenever x is non-NULL.
C6_QueryModes ==
    SparseTramp =>
        /\ Len(last.cb) = 1
        /\ last.cb[1].mode \in {"structure", "value"}
        /\ last.cb[1].mode = "structure" =>
               last.args.x = NULL /\ last.args.iRow # NULL /\ last.args.jCol # NULL
        /\ last.args.x # NULL => last.cb[1].mode = "value"

C6_Witness ==
    /\ last.op = "eval_h_cb"
    /\ last.cb[1].mode = "structure"
    /\ last.args.x = NULL
    /\ last.args.iRow # NULL
    /\ last.args.jCol # NULL

\* C7: the point and the three multiplier arrays of every dictionary solve
\* has returned were allocated by that solve call: the point is not the
\* array the caller passed, the caller's arrays still hold what the caller
\* put in them, and no array belongs to two results.
C7_ResultBuffersFresh ==
    /\ \A i \in DOMAIN results :
           /\ results[i].x # results[i].arg
           /\ \A b \in {results[i].x, results[i].lam, results[i].pi, results[i].mu} :
                  bufs[b].by = "solve" /\ bufs[b].call = i
    /\ \A b \in DOMAIN bufs : bufs[b].by = "caller" => bufs[b].data = "x0"
    /\ \A i, j \in DOMAIN results :
           i # j => {results[i].x, results[i].lam, results[i].pi, results[i].mu}
                    \cap {results[j].x, results[j].lam, results[j].pi, results[j].mu} = {}

\* C8: the Jacobian and Hessian trampolines query the callback once; if any
\* returned array's size differs from the nonzero count passed in, they
\* return false without any memcpy; they return true only after copying
\* exactly that count into each output buffer of the mode taken.
C8_SparseLengthChecked ==
    SparseTramp =>
        LET nele == last.args.nele
            call == last.cb[1]
        IN  /\ Len(last.cb) = 1
            /\ (\E k \in DOMAIN call.sizes : call.sizes[k] # nele) =>
                   last.ret = FALSE /\ last.copies = <<>>
            /\ last.ret = TRUE =>
                   last.copies =
                       IF call.mode = "structure"
                       THEN <<Memcpy("iRow", nele, nele), Memcpy("jCol", nele, nele)>>
                       ELSE <<Memcpy("values", nele, nele)>>

C8_Witness ==
    /\ last.op = "eval_jac_g_cb"
    /\ last.cb[1].mode = "structure"
    /\ last.cb[1].sizes[1] = last.args.nele
    /\ last.cb[1].sizes[2] # last.args.nele
    /\ last.ret = FALSE
    /\ last.copies = <<>>

\* C9: a construction that succeeds makes one structure query of eval_jac_g,
\* then one of eval_h, then creates the native problem; nnzj and nnzh are
\* the sizes of the two row arrays returned, they are the counts given to
\* CreateIpoptProblem, and they stay so through every later call.
C9_NonzeroCountsFixed ==
    Constructed =>
        /\ Len(initLog) = 3
        /\ initLog[1].fn = "eval_jac_g" /\ initLog[1].flag
        /\ initLog[2].fn = "eval_h" /\ initLog[2].flag
        /\ nnzj = initLog[1].rows
        /\ nnzh = initLog[2].rows
        /\ initLog[3].args = [nele_jac |-> nnzj, nele_hess |-> nnzh]
        /\ \A i \in DOMAIN created :
               created[i].args = [nele_jac |-> nnzj, nele_hess |-> nnzh]

C9_Witness ==
    /\ Constructed
    /\ nnzj # nnzh
    /\ results # <<>>
    /\ last.op = "add_option"

\* C10: FreeIpoptProblem is only ever given a handle that CreateIpoptProblem
\* returned and that has not been released before, also when construction
\* failed; the native setters and IpoptSolve are only given such handles.
C10_FreeOnlyCreated ==
    /\ \A j \in DOMAIN freed :
           /\ freed[j] \in Handles
           /\ \A k \in 1..(j - 1) : freed[k] # freed[j]
    /\ (last.op = "add_option" /\ last.native # <<>>) =>
           last.native[1].handle \in Handles
    /\ frame # <<>> => frame.handle \in Handles

====
